--------------------------- MODULE Spec2Model ---------------------------
\* The competitor-analysis pipeline of src/app.py: geocoding, paginated
\* nearby search, per-stub detail retrieval, review text mining, profile
\* assembly, sorting and the summary step of main.

EXTENDS Integers, Sequences, FiniteSets, TLC

\* The keyword tables of RoofingCompetitorAnalyzer.__init__. A text is a sequence of
\* one-character strings, so that substring tests, counts and pattern matches are
\* computed on the characters.

ThemeNames ==
    <<"speed", "quality", "price", "communication", "cleanup", "warranty", "insurance", "emergency", "materials", "experience", "scheduling", "estimate">>

opportunity_keywords ==
    [theme \in {ThemeNames[n] : n \in 1..Len(ThemeNames)} |->
        CASE theme = "speed" -> <<
              <<"f","a","s","t">>,
              <<"q","u","i","c","k">>,
              <<"p","r","o","m","p","t">>,
              <<"t","i","m","e","l","y">>,
              <<"o","n"," ","t","i","m","e">>,
              <<"e","f","f","i","c","i","e","n","t">> >>
          [] theme = "quality" -> <<
              <<"q","u","a","l","i","t","y">>,
              <<"e","x","c","e","l","l","e","n","t">>,
              <<"p","r","o","f","e","s","s","i","o","n","a","l">>,
              <<"s","k","i","l","l","e","d">>,
              <<"e","x","p","e","r","t">>,
              <<"c","r","a","f","t","s","m","a","n","s","h","i","p">> >>
          [] theme = "price" -> <<
              <<"a","f","f","o","r","d","a","b","l","e">>,
              <<"r","e","a","s","o","n","a","b","l","e">>,
              <<"c","h","e","a","p">>,
              <<"e","x","p","e","n","s","i","v","e">>,
              <<"o","v","e","r","p","r","i","c","e","d">>,
              <<"f","a","i","r"," ","p","r","i","c","e">> >>
          [] theme = "communication" -> <<
              <<"r","e","s","p","o","n","s","i","v","e">>,
              <<"c","o","m","m","u","n","i","c","a","t","i","v","e">>,
              <<"e","x","p","l","a","i","n","e","d">>,
              <<"k","e","p","t"," ","i","n","f","o","r","m","e","d">>,
              <<"p","o","o","r"," ","c","o","m","m","u","n","i","c","a","t","i","o","n">> >>
          [] theme = "cleanup" -> <<
              <<"c","l","e","a","n">>,
              <<"c","l","e","a","n","u","p">>,
              <<"m","e","s","s","y">>,
              <<"l","e","f","t"," ","d","e","b","r","i","s">>,
              <<"n","e","a","t">>,
              <<"t","i","d","y">> >>
          [] theme = "warranty" -> <<
              <<"w","a","r","r","a","n","t","y">>,
              <<"g","u","a","r","a","n","t","e","e">>,
              <<"s","t","a","n","d","s"," ","b","e","h","i","n","d"," ","w","o","r","k">>,
              <<"h","o","n","o","r"," ","w","a","r","r","a","n","t","y">> >>
          [] theme = "insurance" -> <<
              <<"i","n","s","u","r","a","n","c","e">>,
              <<"c","l","a","i","m">>,
              <<"i","n","s","u","r","a","n","c","e"," ","w","o","r","k">>,
              <<"h","e","l","p"," ","w","i","t","h"," ","i","n","s","u","r","a","n","c","e">> >>
          [] theme = "emergency" -> <<
              <<"e","m","e","r","g","e","n","c","y">>,
              <<"u","r","g","e","n","t">>,
              <<"s","t","o","r","m"," ","d","a","m","a","g","e">>,
              <<"l","e","a","k">>,
              <<"i","m","m","e","d","i","a","t","e">> >>
          [] theme = "materials" -> <<
              <<"m","a","t","e","r","i","a","l","s">>,
              <<"s","h","i","n","g","l","e","s">>,
              <<"m","e","t","a","l">>,
              <<"t","i","l","e">>,
              <<"m","e","m","b","r","a","n","e">>,
              <<"q","u","a","l","i","t","y"," ","m","a","t","e","r","i","a","l","s">> >>
          [] theme = "experience" -> <<
              <<"e","x","p","e","r","i","e","n","c","e","d">>,
              <<"y","e","a","r","s"," ","i","n"," ","b","u","s","i","n","e","s","s">>,
              <<"k","n","o","w","l","e","d","g","e","a","b","l","e">>,
              <<"i","n","e","x","p","e","r","i","e","n","c","e","d">> >>
          [] theme = "scheduling" -> <<
              <<"f","l","e","x","i","b","l","e">>,
              <<"s","c","h","e","d","u","l","i","n","g">>,
              <<"a","p","p","o","i","n","t","m","e","n","t">>,
              <<"s","h","o","w","e","d"," ","u","p">>,
              <<"n","o"," ","s","h","o","w">>,
              <<"l","a","t","e">> >>
          [] theme = "estimate" -> <<
              <<"f","r","e","e"," ","e","s","t","i","m","a","t","e">>,
              <<"a","c","c","u","r","a","t","e"," ","e","s","t","i","m","a","t","e">>,
              <<"d","e","t","a","i","l","e","d"," ","q","u","o","t","e">>,
              <<"o","v","e","r","e","s","t","i","m","a","t","e">> >>]

negative_indicators ==
    <<
    <<"d","i","s","a","p","p","o","i","n","t","e","d">>,
    <<"u","n","p","r","o","f","e","s","s","i","o","n","a","l">>,
    <<"r","u","d","e">>,
    <<"l","a","t","e">>,
    <<"n","o"," ","s","h","o","w">>,
    <<"p","o","o","r">>,
    <<"t","e","r","r","i","b","l","e">>,
    <<"a","w","f","u","l">>,
    <<"b","a","d">>,
    <<"w","o","r","s","t">>,
    <<"a","v","o","i","d">>,
    <<"s","c","a","m">>,
    <<"o","v","e","r","c","h","a","r","g","e","d">>,
    <<"s","h","o","d","d","y">>,
    <<"c","h","e","a","p"," ","w","o","r","k">>,
    <<"l","e","a","k","e","d">>,
    <<"f","a","i","l","e","d">>,
    <<"d","a","m","a","g","e","d">>,
    <<"n","i","g","h","t","m","a","r","e">> >>

positive_indicators ==
    <<
    <<"e","x","c","e","l","l","e","n","t">>,
    <<"a","m","a","z","i","n","g">>,
    <<"p","r","o","f","e","s","s","i","o","n","a","l">>,
    <<"r","e","c","o","m","m","e","n","d">>,
    <<"g","r","e","a","t">>,
    <<"f","a","n","t","a","s","t","i","c">>,
    <<"w","o","n","d","e","r","f","u","l">>,
    <<"o","u","t","s","t","a","n","d","i","n","g">>,
    <<"p","e","r","f","e","c","t">>,
    <<"i","m","p","r","e","s","s","e","d">>,
    <<"s","a","t","i","s","f","i","e","d">>,
    <<"h","a","p","p","y">>,
    <<"r","e","l","i","a","b","l","e">>,
    <<"t","r","u","s","t","w","o","r","t","h","y">>,
    <<"h","o","n","e","s","t">>,
    <<"f","a","i","r">>,
    <<"q","u","a","l","i","t","y"," ","w","o","r","k">> >>

service_keywords ==
    <<
    <<"r","o","o","f"," ","r","e","p","a","i","r">>,
    <<"r","o","o","f"," ","r","e","p","l","a","c","e","m","e","n","t">>,
    <<"r","o","o","f"," ","i","n","s","t","a","l","l","a","t","i","o","n">>,
    <<"s","h","i","n","g","l","e">>,
    <<"m","e","t","a","l"," ","r","o","o","f">>,
    <<"t","i","l","e"," ","r","o","o","f">>,
    <<"f","l","a","t"," ","r","o","o","f">>,
    <<"g","u","t","t","e","r">>,
    <<"s","i","d","i","n","g">>,
    <<"l","e","a","k"," ","r","e","p","a","i","r">>,
    <<"s","t","o","r","m"," ","d","a","m","a","g","e">>,
    <<"i","n","s","u","r","a","n","c","e"," ","c","l","a","i","m","s">>,
    <<"e","m","e","r","g","e","n","c","y"," ","r","e","p","a","i","r">>,
    <<"i","n","s","p","e","c","t","i","o","n">>,
    <<"m","a","i","n","t","e","n","a","n","c","e">>,
    <<"v","e","n","t","i","l","a","t","i","o","n">>,
    <<"s","k","y","l","i","g","h","t">> >>
\* ---------------------------------------------------------------- text

UpperLetters ==
    <<"A","B","C","D","E","F","G","H","I","J","K","L","M",
      "N","O","P","Q","R","S","T","U","V","W","X","Y","Z">>

LowerLetters ==
    <<"a","b","c","d","e","f","g","h","i","j","k","l","m",
      "n","o","p","q","r","s","t","u","v","w","x","y","z">>

Range(s) == {s[n] : n \in 1..Len(s)}

IndexOf(s, c) == CHOOSE n \in 1..Len(s) : s[n] = c

\* str.lower() and str.upper() on one character.
LowerChar(c) ==
    IF c \in Range(UpperLetters) THEN LowerLetters[IndexOf(UpperLetters, c)] ELSE c

UpperChar(c) ==
    IF c \in Range(LowerLetters) THEN UpperLetters[IndexOf(LowerLetters, c)] ELSE c

IsLetter(c) == c \in Range(UpperLetters) \cup Range(LowerLetters)

\* str.lower()
Lower(text) == [n \in 1..Len(text) |-> LowerChar(text[n])]

\* str.title(): a letter that follows a non-letter is upper-cased, every other
\* letter is lower-cased.
Title(text) ==
    [n \in 1..Len(text) |->
        IF n = 1 \/ ~IsLetter(text[n - 1])
        THEN UpperChar(text[n])
        ELSE LowerChar(text[n])]

\* sep.join(texts)
RECURSIVE Join(_, _)
Join(sep, texts) ==
    IF texts = <<>> THEN <<>>
    ELSE IF Len(texts) = 1 THEN texts[1]
    ELSE texts[1] \o sep \o Join(sep, Tail(texts))

OccursAt(text, keyword, n) ==
    /\ n >= 1
    /\ n + Len(keyword) - 1 <= Len(text)
    /\ \A j \in 1..Len(keyword) : text[n + j - 1] = keyword[j]

\* keyword in text
Contains(text, keyword) ==
    \E n \in 1..(Len(text) + 1) : OccursAt(text, keyword, n)

Min(S) == CHOOSE x \in S : \A y \in S : x <= y

Max(S) == CHOOSE x \in S : \A y \in S : x >= y

\* text.count(keyword): the non-overlapping occurrences, found left to right;
\* each search resumes after the occurrence found before.
RECURSIVE CountFrom(_, _, _)
CountFrom(text, keyword, n) ==
    LET found == {j \in n..Len(text) : OccursAt(text, keyword, j)}
    IN  IF found = {} THEN 0
        ELSE 1 + CountFrom(text, keyword, Min(found) + Len(keyword))

Count(text, keyword) == CountFrom(text, keyword, 1)

RECURSIVE SumSeq(_)
SumSeq(s) == IF s = <<>> THEN 0 ELSE Head(s) + SumSeq(Tail(s))

\* dict.get(key, default); a dict is a function whose domain is its keys.
Get(d, key, default) == IF key \in DOMAIN d THEN d[key] ELSE default

EmptyDict == <<>>

\* ---------------------------------------------------------------- patterns
\* A pattern of price_patterns is a sequence of items: a character class (set
\* or its complement) with a quantifier "1", "?", "*" or "+".

Digits == {"0","1","2","3","4","5","6","7","8","9"}

Whitespace == {" ", "\t", "\n", "\r", "\f"}

Item(set, neg, q) == [set |-> set, neg |-> neg, q |-> q]

Lit(text) == [n \in 1..Len(text) |-> Item({text[n]}, FALSE, "1")]

AnyStar == <<Item({"\n"}, TRUE, "*")>>                      \* .*
SpaceStar == <<Item(Whitespace, FALSE, "*")>>               \* \s*
Amount == <<Item(Digits \cup {","}, FALSE, "+")>>           \* [\d,]+
Dollar == <<Item({"$"}, FALSE, "1")>> \o Amount             \* \$[\d,]+

price_patterns ==
    << Dollar,
       Amount \o SpaceStar \o Lit(<<"d","o","l","l","a","r">>)
           \o <<Item({"s"}, FALSE, "?")>>,
       Lit(<<"c","o","s","t">>) \o AnyStar \o Dollar,
       Lit(<<"p","r","i","c","e">>) \o AnyStar \o Dollar,
       Lit(<<"q","u","o","t","e">>) \o AnyStar \o Dollar,
       Lit(<<"e","s","t","i","m","a","t","e">>) \o AnyStar \o Dollar,
       Dollar \o AnyStar \o Lit(<<"s","q","u","a","r","e">>) \o SpaceStar
           \o Lit(<<"f","o","o","t">>),
       <<Item(Digits \cup {"."}, FALSE, "+")>> \o SpaceStar
           \o Lit(<<"p","e","r">>) \o SpaceStar
           \o Lit(<<"s","q","u","a","r","e">>) \o SpaceStar
           \o Lit(<<"f","o","o","t">>) >>

\* re.IGNORECASE: a character matches a class when either of its cases does.
InClass(c, item) ==
    LET hit == LowerChar(c) \in item.set \/ UpperChar(c) \in item.set \/ c \in item.set
    IN  IF item.neg THEN ~hit ELSE hit

\* The number of consecutive characters from pos on that are in the class.
RunLength(text, pos, item) ==
    Min({p \in pos..(Len(text) + 1) : p > Len(text) \/ ~InClass(text[p], item)}) - pos

NoMatch == 0

\* The position after the match of pattern[k..] that starts at pos, or NoMatch.
\* A quantified item is greedy: it takes the longest run first and gives
\* characters back until the rest of the pattern matches.
RECURSIVE MatchFrom(_, _, _, _)
RECURSIVE Backtrack(_, _, _, _, _, _)
MatchFrom(pattern, k, text, pos) ==
    IF k > Len(pattern) THEN pos
    ELSE LET item == pattern[k]
             run == RunLength(text, pos, item)
         IN  CASE item.q = "1" ->
                    IF run >= 1 THEN MatchFrom(pattern, k + 1, text, pos + 1) ELSE NoMatch
               [] item.q = "?" ->
                    Backtrack(pattern, k, text, pos, IF run >= 1 THEN 1 ELSE 0, 0)
               [] item.q = "*" -> Backtrack(pattern, k, text, pos, run, 0)
               [] item.q = "+" -> Backtrack(pattern, k, text, pos, run, 1)

Backtrack(pattern, k, text, pos, most, least) ==
    LET takes == {t \in least..most : MatchFrom(pattern, k + 1, text, pos + t) # NoMatch}
    IN  IF takes = {} THEN NoMatch
        ELSE MatchFrom(pattern, k + 1, text, pos + Max(takes))

\* re.findall(pattern, text): the non-overlapping matches, scanned left to right.
RECURSIVE FindAllFrom(_, _, _)
FindAllFrom(pattern, text, pos) ==
    LET starts == {p \in pos..Len(text) : MatchFrom(pattern, 1, text, p) # NoMatch}
    IN  IF starts = {} THEN <<>>
        ELSE LET start == Min(starts)
                 end == MatchFrom(pattern, 1, text, start)
             IN  <<SubSeq(text, start, end - 1)>>
                     \o FindAllFrom(pattern, text, IF end > start THEN end ELSE start + 1)

FindAll(pattern, text) == FindAllFrom(pattern, text, 1)

\* ---------------------------------------------------------------- text mining

InSeq(x, s) == \E n \in 1..Len(s) : s[n] = x

RECURSIVE AppendNew(_, _)
AppendNew(list, matches) ==
    IF matches = <<>> THEN list
    ELSE AppendNew(IF InSeq(Head(matches), list) THEN list ELSE Append(list, Head(matches)),
                   Tail(matches))

\* PricingOfText with the loop over the patterns left at the first pattern
\* that matches.
RECURSIVE PricingOfText_FirstPatternOnly(_, _, _)
PricingOfText_FirstPatternOnly(pricing_info, text, p) ==
    IF p > Len(price_patterns) THEN pricing_info
    ELSE IF FindAll(price_patterns[p], text) # <<>>
         THEN AppendNew(pricing_info, FindAll(price_patterns[p], text))
         ELSE PricingOfText_FirstPatternOnly(pricing_info, text, p + 1)

RECURSIVE PricingOfText(_, _, _)
PricingOfText(pricing_info, text, p) ==
    IF p > Len(price_patterns) THEN pricing_info
    ELSE PricingOfText(AppendNew(pricing_info, FindAll(price_patterns[p], text)), text, p + 1)

RECURSIVE PricingOfReviews(_, _)
PricingOfReviews(pricing_info, reviews) ==
    IF reviews = <<>> THEN pricing_info
    ELSE PricingOfReviews(
             PricingOfText(pricing_info, Lower(Get(Head(reviews), "text", <<>>)), 1),
             Tail(reviews))

extract_pricing_from_reviews(reviews) == PricingOfReviews(<<>>, reviews)

extract_services_from_text(text) ==
    LET text_lower == Lower(text)
    IN  {Title(service_keywords[n]) :
            n \in {j \in 1..Len(service_keywords) : Contains(text_lower, service_keywords[j])}}

ReviewTexts(reviews) == [n \in 1..Len(reviews) |-> Get(reviews[n], "text", <<>>)]

ThemeCount(all_text, theme) ==
    LET keywords == opportunity_keywords[theme]
    IN  SumSeq([n \in 1..Len(keywords) |-> Count(all_text, keywords[n])])

analyze_review_keywords(reviews) ==
    LET all_text == Join(<<" ">>, [n \in 1..Len(reviews) |-> Lower(ReviewTexts(reviews)[n])])
        Found(keyword) == Contains(all_text, keyword)
        counted == {theme \in Range(ThemeNames) : ThemeCount(all_text, theme) > 0}
    IN  [positive_found |-> SelectSeq(positive_indicators, Found),
         negative_found |-> SelectSeq(negative_indicators, Found),
         themes |-> [theme \in counted |-> ThemeCount(all_text, theme)]]
\* ---------------------------------------------------------------- floats

\* Python's float is the IEEE 754 binary64 format: a power of two and a
\* significand of 53 bits, the first of which is 1. A positive float is a
\* record of its exponent and of the bits of its significand.
MantissaBits == 53

RECURSIVE Pow2(_)
Pow2(k) == IF k = 0 THEN 1 ELSE 2 * Pow2(k - 1)

\* The exponent of num / den: the e with 2^e <= num / den < 2^(e + 1).
ExponentOf(num, den) ==
    IF num >= den
    THEN Max({k \in 0..20 : Pow2(k) * den <= num})
    ELSE 0 - Min({k \in 1..20 : Pow2(k) * num >= den})

\* The long division of r / den, for r < den: k binary digits after the ones
\* in bits, and what is left of r.
RECURSIVE Quotient(_, _, _, _)
Quotient(bits, r, den, k) ==
    IF k = 0 THEN [bits |-> bits, rest |-> r]
    ELSE IF 2 * r >= den
         THEN Quotient(Append(bits, 1), 2 * r - den, den, k - 1)
         ELSE Quotient(Append(bits, 0), 2 * r, den, k - 1)

\* The significand after the one of the bits given, and whether it is carried
\* into the exponent.
Successor(bits) ==
    LET zeros == {k \in 1..Len(bits) : bits[k] = 0}
    IN  IF zeros = {}
        THEN [bits |-> [k \in 1..Len(bits) |-> IF k = 1 THEN 1 ELSE 0], carry |-> 1]
        ELSE [bits |-> [k \in 1..Len(bits) |->
                           IF k < Max(zeros) THEN bits[k]
                           ELSE IF k = Max(zeros) THEN 1 ELSE 0],
              carry |-> 0]

\* The float nearest to num / den, ties to the even significand: what the
\* division of two small integers returns, and what a decimal literal denotes.
FloatOf(num, den) ==
    LET e == ExponentOf(num, den)
        n0 == IF e >= 0 THEN num ELSE Pow2(0 - e) * num
        d0 == IF e >= 0 THEN Pow2(e) * den ELSE den
        q == Quotient(<<1>>, n0 - d0, d0, MantissaBits - 1)
        up == \/ 2 * q.rest > d0
              \/ 2 * q.rest = d0 /\ q.bits[MantissaBits] = 1
        s == Successor(q.bits)
    IN  IF up THEN [exp |-> e + s.carry, bits |-> s.bits]
        ELSE [exp |-> e, bits |-> q.bits]

\* a < b, of two positive floats.
FloatLess(a, b) ==
    \/ a.exp < b.exp
    \/ /\ a.exp = b.exp
       /\ \E k \in 1..MantissaBits :
             /\ a.bits[k] < b.bits[k]
             /\ \A j \in 1..(k - 1) : a.bits[j] = b.bits[j]

\* ---------------------------------------------------------------- inputs

MaxStubs == 2       \* stubs the search provider serves in one behaviour
MaxPages == 2       \* pages the search provider serves for one search
MaxRuns == 2        \* executions of main and calls of analyze_competitors
MaxCompetitors == 10  \* competitors in a stored list

PageDelay == 2000   \* time.sleep(2), in milliseconds
DetailDelay == 100  \* time.sleep(0.1)
DoneDelay == 1000   \* time.sleep(1)

\* The address and the radius of the form when the button is pressed, and
\* the arguments of a call of analyze_competitors.
FormInputs == {<<"", 5>>, <<"12 Oak Ave", 5>>, <<"7 Elm Rd", 25>>}
CallInputs == {<<"12 Oak Ave", 5>>}

GeocodeStatuses == {"OK", "ZERO_RESULTS", "REQUEST_DENIED"}
SearchStatuses == {"OK", "ZERO_RESULTS"}
DetailsStatuses == {"OK", "NOT_FOUND"}

\* Coordinates are positions on a line, in thousandths of a mile.
Origins == {0}
StubLocations == {-996, 1004, 2000}

ScenarioText ==
    <<"T","h","e"," ","r","o","o","f"," ","r","e","p","a","i","r"," ","w","a","s"," ",
      "f","a","s","t",","," ","t","h","e"," ","c","r","e","w"," ","w","a","s"," ",
      "p","r","o","f","e","s","s","i","o","n","a","l",","," ","a","n","d"," ",
      "t","h","e"," ","q","u","o","t","e"," ","w","a","s"," ","$","8",",","5","0","0",".">>

ComplaintText ==
    <<"R","u","d","e"," ","c","r","e","w",","," ","n","o"," ","s","h","o","w","."," ",
      "C","o","s","t"," ","$","3","0","0">>

\* The detail records the place-details provider answers with when its status
\* is OK: one with every field, one with no rating above 0 and a review that
\* has no text, one with the name alone, one with no field at all. Ratings
\* are in tenths of a star.
DetailRecords ==
    << [name |-> <<"A","c","m","e"," ","R","o","o","f","i","n","g">>,
        formatted_address |-> "1 Elm St",
        formatted_phone_number |-> "555-0100",
        rating |-> 45,
        user_ratings_total |-> 120,
        website |-> "https://acme.example",
        reviews |-> <<[text |-> ScenarioText]>>],
       [name |-> <<"Z","e","d"," ","R","o","o","f","s">>,
        rating |-> 0,
        user_ratings_total |-> 7,
        reviews |-> <<[text |-> ComplaintText], EmptyDict>>],
       [name |-> <<"B","e","s","t"," ","G","u","t","t","e","r"," ","C","o">>],
       EmptyDict >>

\* The text mining of the records above, computed once: the review lists and
\* the texts the records give the extraction methods, and what each returns.
ReviewLists == {Get(DetailRecords[k], "reviews", <<>>) : k \in 1..Len(DetailRecords)}

ServiceText(record) ==
    Join(<<" ">>, ReviewTexts(Get(record, "reviews", <<>>)))
        \o <<" ">> \o Get(record, "name", <<>>)

ServiceTexts == {ServiceText(DetailRecords[k]) : k \in 1..Len(DetailRecords)}

PricingOf == [reviews \in ReviewLists |-> extract_pricing_from_reviews(reviews)]

ServicesOf == [text \in ServiceTexts |-> extract_services_from_text(text)]

KeywordsOf == [reviews \in ReviewLists |-> analyze_review_keywords(reviews)]

SeqsUpTo(S, n) == UNION {[1..k -> S] : k \in 0..n}

\* ---------------------------------------------------------------- state

VARIABLES
    session_state,  \* st.session_state: a dict
    pc,             \* where the run in progress stands
    caller,         \* "main" or "analyze_competitors": whose pipeline runs
    address,        \* the address and the radius of the run
    radius,
    origin,         \* your_lat, your_lng
    data,           \* search_nearby_roofing_companies: the last page
    all_results,    \* the stubs accumulated; places in the callers
    i,              \* the index of the stub the loop is at
    details,        \* the record get_place_details returned last
    competitors,    \* the list the loop builds
    log,            \* the external calls and the delays of the run, in order
    messages,       \* st.error, st.warning, st.info, st.success of this execution
    summary,        \* the values the summary step has computed
    raised,         \* the exception that left main or analyze_competitors
    result,         \* what analyze_competitors returned
    runs,           \* executions and calls so far
    served          \* stubs the search provider has served so far

vars == <<session_state, pc, caller, address, radius, origin, data, all_results, i,
          details, competitors, log, messages, summary, raised, result, runs, served>>

NoException == <<>>
NoResult == <<"none">>

Init ==
    /\ session_state = EmptyDict
    /\ pc = "idle"
    /\ caller = "main"
    /\ address = ""
    /\ radius = 5
    /\ origin = <<>>
    /\ data = EmptyDict
    /\ all_results = <<>>
    /\ i = 1
    /\ details = EmptyDict
    /\ competitors = <<>>
    /\ log = <<>>
    /\ messages = <<>>
    /\ summary = EmptyDict
    /\ raised = NoException
    /\ result = NoResult
    /\ runs = 0
    /\ served = 0

\* ---------------------------------------------------------------- methods

Competitor(name, addr, phone, rating, review_count, website, distance_miles, pricing_info, services, positive_keywords, negative_keywords, review_themes) ==
    [name |-> name, address |-> addr, phone |-> phone, rating |-> rating,
     review_count |-> review_count, website |-> website,
     distance_miles |-> distance_miles, pricing_info |-> pricing_info,
     services |-> services, positive_keywords |-> positive_keywords,
     negative_keywords |-> negative_keywords, review_themes |-> review_themes]

\* geodesic(a, b).miles, in thousandths of a mile
Distance(a, b) == IF a >= b THEN a - b ELSE b - a

\* round(distance, 2): thousandths to hundredths of a mile
Round2(distance) == (distance + 5) \div 10

Unknown == <<"U","n","k","n","o","w","n">>

\* geocode_address without the test of the status.
geocode_address_ignores_status(status, location) ==
    [returned |-> TRUE, value |-> location]

\* geocode_address, given the provider's answer: the value returned or the
\* exception raised.
geocode_address(status, location) ==
    IF status = "OK"
    THEN [returned |-> TRUE, value |-> location]
    ELSE [returned |-> FALSE, exception |-> <<"Exception", "Geocoding failed", status>>]

\* get_place_details, given the provider's answer.
get_place_details(status, record) ==
    IF status = "OK" THEN record ELSE EmptyDict

\* not details
IsEmpty(d) == DOMAIN d = {}

SearchEvent(page, pagetoken) ==
    [op |-> "search", pagetoken |-> pagetoken, status |-> page.status,
     results |-> page.results, token |-> "next_page_token" \in DOMAIN page]

SleepEvent(ms) == [op |-> "sleep", ms |-> ms]

PagesOf(events) == Len(SelectSeq(events, LAMBDA e : e.op = "search"))

\* The stubs of a page: new places at the given locations.
Stubs(locs) == [k \in 1..Len(locs) |-> [place_id |-> served + k, location |-> locs[k]]]

Page(status, results, token) ==
    IF token THEN [status |-> status, results |-> results, next_page_token |-> "token"]
             ELSE [status |-> status, results |-> results]

\* The answers the nearby-search provider may give to the next page request:
\* any status, any stubs within what it still serves and, on any but the last
\* page it serves, possibly a token.
Pages ==
    {Page(s, Stubs(locs), token) :
        s \in SearchStatuses,
        locs \in SeqsUpTo(StubLocations, MaxStubs - served),
        token \in {t \in BOOLEAN : t => PagesOf(log) + 1 < MaxPages}}

\* competitors.sort(key=lambda x: x.distance_miles): a stable sort, so an
\* element goes after the elements whose key is not greater.
RECURSIVE SortByDistance(_)
\* Insert with the element put before the elements of the same key.
Insert_BeforeEqual(sorted, c) ==
    LET before == {k \in 1..Len(sorted) : sorted[k].distance_miles < c.distance_miles}
        at == IF before = {} THEN 0 ELSE Max(before)
    IN  SubSeq(sorted, 1, at) \o <<c>> \o SubSeq(sorted, at + 1, Len(sorted))

Insert(sorted, c) ==
    LET before == {k \in 1..Len(sorted) : sorted[k].distance_miles <= c.distance_miles}
        at == IF before = {} THEN 0 ELSE Max(before)
    IN  SubSeq(sorted, 1, at) \o <<c>> \o SubSeq(sorted, at + 1, Len(sorted))

SortByDistance(list) ==
    IF list = <<>> THEN <<>>
    ELSE Insert(SortByDistance(SubSeq(list, 1, Len(list) - 1)), list[Len(list)])

\* min(competitors, key=lambda x: x.distance_miles): the first of the least.
MinByDistance(list) ==
    list[Min({k \in 1..Len(list) :
                \A j \in 1..Len(list) : list[k].distance_miles <= list[j].distance_miles})]
\* ---------------------------------------------------------------- main: the button
\* An execution of main or a call of analyze_competitors starts with nothing
\* of the one before it but st.session_state.

locals == <<origin, data, all_results, i, details, competitors>>

ResetLocals ==
    /\ origin' = <<>>
    /\ data' = EmptyDict
    /\ all_results' = <<>>
    /\ i' = 1
    /\ details' = EmptyDict
    /\ competitors' = <<>>

\* ClickAnalyze with the stored results dropped when the button is pressed.
ClickAnalyze_ClearsStored(addr, rad) ==
    /\ pc = "idle"
    /\ runs < MaxRuns
    /\ runs' = runs + 1
    /\ caller' = "main"
    /\ address' = addr
    /\ radius' = rad
    /\ ResetLocals
    /\ log' = <<>>
    /\ summary' = EmptyDict
    /\ raised' = NoException
    /\ result' = NoResult
    /\ IF addr = ""
       THEN /\ messages' = <<<<"error", "Please enter a business address">>>>
            /\ pc' = "idle"
       ELSE /\ messages' = <<>>
            /\ pc' = "geocode"
    /\ session_state' = EmptyDict
    /\ UNCHANGED served

\* main is executed with the button pressed: an empty address is refused,
\* any other starts the pipeline.
ClickAnalyze(addr, rad) ==
    /\ pc = "idle"
    /\ runs < MaxRuns
    /\ runs' = runs + 1
    /\ caller' = "main"
    /\ address' = addr
    /\ radius' = rad
    /\ ResetLocals
    /\ log' = <<>>
    /\ summary' = EmptyDict
    /\ raised' = NoException
    /\ result' = NoResult
    /\ IF addr = ""
       THEN /\ messages' = <<<<"error", "Please enter a business address">>>>
            /\ pc' = "idle"
       ELSE /\ messages' = <<>>
            /\ pc' = "geocode"
    /\ UNCHANGED <<session_state, served>>

\* main is executed without the button pressed: it goes to the results.
Rerun ==
    /\ pc = "idle"
    /\ runs < MaxRuns
    /\ runs' = runs + 1
    /\ caller' = "main"
    /\ ResetLocals
    /\ log' = <<>>
    /\ messages' = <<>>
    /\ summary' = EmptyDict
    /\ raised' = NoException
    /\ result' = NoResult
    /\ pc' = "display"
    /\ UNCHANGED <<session_state, address, radius, served>>

\* analyze_competitors is called.
CallAnalyzeCompetitors(addr, rad) ==
    /\ pc = "idle"
    /\ runs < MaxRuns
    /\ runs' = runs + 1
    /\ caller' = "analyze_competitors"
    /\ address' = addr
    /\ radius' = rad
    /\ ResetLocals
    /\ log' = <<>>
    /\ messages' = <<>>
    /\ summary' = EmptyDict
    /\ raised' = NoException
    /\ result' = NoResult
    /\ pc' = "geocode"
    /\ UNCHANGED <<session_state, served>>

\* ---------------------------------------------------------------- geocoding

\* main calls geocode_address; the exception it raises is caught by main's
\* handler, which reports it and returns.
MainGeocode ==
    /\ pc = "geocode"
    /\ caller = "main"
    /\ \E status \in GeocodeStatuses, location \in Origins :
          LET got == geocode_address(status, location)
          IN  /\ log' = Append(log, [op |-> "geocode", status |-> status])
              /\ IF got.returned
                 THEN /\ origin' = got.value
                      /\ pc' = "search"
                      /\ UNCHANGED messages
                 ELSE /\ messages' = messages \o
                            << <<"error", "Error during analysis", got.exception>>,
                               <<"info", "Make sure your address is valid and try again.">> >>
                      /\ pc' = "idle"
                      /\ UNCHANGED origin
    /\ UNCHANGED <<session_state, caller, address, radius, data, all_results, i, details,
                   competitors, summary, raised, result, runs, served>>

\* analyze_competitors calls geocode_address; the exception leaves it.
AnalyzeGeocode ==
    /\ pc = "geocode"
    /\ caller = "analyze_competitors"
    /\ \E status \in GeocodeStatuses, location \in Origins :
          LET got == geocode_address(status, location)
          IN  /\ log' = Append(log, [op |-> "geocode", status |-> status])
              /\ IF got.returned
                 THEN /\ origin' = got.value
                      /\ pc' = "search"
                      /\ UNCHANGED raised
                 ELSE /\ raised' = got.exception
                      /\ pc' = "idle"
                      /\ UNCHANGED origin
    /\ UNCHANGED <<session_state, caller, address, radius, data, all_results, i, details,
                   competitors, messages, summary, result, runs, served>>

\* ---------------------------------------------------------------- search

\* search_nearby_roofing_companies: the first request. 
SearchFirstPage ==
    /\ pc = "search"
    /\ \E page \in Pages :
          /\ data' = page
          /\ log' = Append(log, SearchEvent(page, FALSE))
          /\ served' = served + Len(page.results)
          /\ IF page.status = "OK"
             THEN /\ all_results' = page.results
                  /\ pc' = IF "next_page_token" \in DOMAIN page THEN "page_delay"
                           ELSE "searched"
             ELSE /\ all_results' = <<>>
                  /\ pc' = "searched"
    /\ UNCHANGED <<session_state, caller, address, radius, origin, i, details, competitors,
                   messages, summary, raised, result, runs>>

\* SearchPageDelay without the delay.
SearchPageDelay_Skipped ==
    /\ pc = "page_delay"
    /\ pc' = "next_page"
    /\ UNCHANGED <<session_state, caller, address, radius, origin, data, all_results, i,
                   details, competitors, log, messages, summary, raised, result, runs,
                   served>>

\* The delay before the token of the last page is used.
SearchPageDelay ==
    /\ pc = "page_delay"
    /\ log' = Append(log, SleepEvent(PageDelay))
    /\ pc' = "next_page"
    /\ UNCHANGED <<session_state, caller, address, radius, origin, data, all_results, i,
                   details, competitors, messages, summary, raised, result, runs, served>>

\* SearchNextPage with the stubs gathered so far dropped when the page is
\* not OK.
SearchNextPage_DropsPartial ==
    /\ pc = "next_page"
    /\ \E page \in Pages :
          /\ data' = page
          /\ log' = Append(log, SearchEvent(page, TRUE))
          /\ served' = served + Len(page.results)
          /\ IF page.status = "OK"
             THEN /\ all_results' = all_results \o page.results
                  /\ pc' = IF "next_page_token" \in DOMAIN page THEN "page_delay"
                           ELSE "searched"
             ELSE /\ all_results' = <<>>
                  /\ pc' = "searched"
    /\ UNCHANGED <<session_state, caller, address, radius, origin, i, details, competitors,
                   messages, summary, raised, result, runs>>

\* The request of a follow-up page, with the token of the last page.
SearchNextPage ==
    /\ pc = "next_page"
    /\ \E page \in Pages :
          /\ data' = page
          /\ log' = Append(log, SearchEvent(page, TRUE))
          /\ served' = served + Len(page.results)
          /\ IF page.status = "OK"
             THEN /\ all_results' = all_results \o page.results
                  /\ pc' = IF "next_page_token" \in DOMAIN page THEN "page_delay"
                           ELSE "searched"
             ELSE /\ all_results' = all_results
                  /\ pc' = "searched"
    /\ UNCHANGED <<session_state, caller, address, radius, origin, i, details, competitors,
                   messages, summary, raised, result, runs>>

\* ---------------------------------------------------------------- main: the loop

\* MainCheckPlaces without the return on an empty list.
MainCheckPlaces_NoEarlyReturn ==
    /\ pc = "searched"
    /\ caller = "main"
    /\ pc' = "loop"
    /\ competitors' = <<>>
    /\ i' = 1
    /\ UNCHANGED <<session_state, caller, address, radius, origin, data, all_results,
                   details, log, messages, summary, raised, result, runs, served>>

\* main, the search having returned: no stub ends the execution with a warning.
MainCheckPlaces ==
    /\ pc = "searched"
    /\ caller = "main"
    /\ IF all_results = <<>>
       THEN /\ messages' = Append(messages,
                   <<"warning", "No competitors found. Try expanding your search radius.">>)
            /\ pc' = "idle"
       ELSE /\ pc' = "loop"
            /\ UNCHANGED messages
    /\ competitors' = <<>>
    /\ i' = 1
    /\ UNCHANGED <<session_state, caller, address, radius, origin, data, all_results,
                   details, log, summary, raised, result, runs, served>>

\* The Competitor main builds of a stub and its detail record.
MainCompetitor(place, record, your_location) ==
    LET distance == Distance(your_location, place.location)
        reviews == Get(record, "reviews", <<>>)
        pricing_info == PricingOf[reviews]
        all_text == Join(<<" ">>, ReviewTexts(reviews))
        services == ServicesOf[all_text \o <<" ">> \o Get(record, "name", <<>>)]
        keywords == KeywordsOf[reviews]
    IN  Competitor(Get(record, "name", Unknown),
                   Get(record, "formatted_address", "Unknown"),
                   Get(record, "formatted_phone_number", "Not available"),
                   Get(record, "rating", 0),
                   Get(record, "user_ratings_total", 0),
                   Get(record, "website", "Not available"),
                   Round2(distance),
                   pricing_info,
                   services,
                   keywords.positive_found,
                   keywords.negative_found,
                   keywords.themes)

\* One pass of main's loop up to its delay: the detail request, and either
\* the skip of the stub or the Competitor appended.
MainFetchDetails ==
    /\ pc = "loop"
    /\ caller = "main"
    /\ i <= Len(all_results)
    /\ \E status \in DetailsStatuses, k \in 1..Len(DetailRecords) :
          LET place == all_results[i]
              got == get_place_details(status, DetailRecords[k])
          IN  /\ log' = Append(log, [op |-> "details", place_id |-> place.place_id,
                                     status |-> status, result |-> got])
              /\ details' = got
              /\ IF IsEmpty(got)
                 THEN /\ i' = i + 1
                      /\ pc' = "loop"
                      /\ UNCHANGED competitors
                 ELSE /\ competitors' = Append(competitors, MainCompetitor(place, got, origin))
                      /\ pc' = "detail_delay"
                      /\ UNCHANGED i
    /\ UNCHANGED <<session_state, caller, address, radius, origin, data, all_results,
                   messages, summary, raised, result, runs, served>>

\* The delay that ends a pass of main's loop.
MainDetailDelay ==
    /\ pc = "detail_delay"
    /\ caller = "main"
    /\ log' = Append(log, SleepEvent(DetailDelay))
    /\ i' = i + 1
    /\ pc' = "loop"
    /\ UNCHANGED <<session_state, caller, address, radius, origin, data, all_results,
                   details, competitors, messages, summary, raised, result, runs, served>>

\* main, the loop over: the list is sorted.
MainSort ==
    /\ pc = "loop"
    /\ caller = "main"
    /\ i > Len(all_results)
    /\ competitors' = SortByDistance(competitors)
    /\ pc' = "complete"
    /\ UNCHANGED <<session_state, caller, address, radius, origin, data, all_results, i,
                   details, log, messages, summary, raised, result, runs, served>>

\* main, the list sorted: after a delay the results are stored.
MainStore ==
    /\ pc = "complete"
    /\ caller = "main"
    /\ log' = Append(log, SleepEvent(DoneDelay))
    /\ session_state' = [key \in {"competitors", "address", "radius"} |->
                            CASE key = "competitors" -> competitors
                              [] key = "address" -> address
                              [] key = "radius" -> radius]
    /\ pc' = "display"
    /\ UNCHANGED <<caller, address, radius, origin, data, all_results, i, details,
                   competitors, messages, summary, raised, result, runs, served>>

\* ---------------------------------------------------------------- main: the summary

Rated(list) == SelectSeq(list, LAMBDA c : c.rating > 0)

Ratings(list) == [k \in 1..Len(list) |-> list[k].rating]

ReviewCounts(list) == [k \in 1..Len(list) |-> list[k].review_count]

\* The services of the stored competitors and, of each, the number of
\* competitors that offer it: Counter(all_services).
AllServices(list) == UNION {list[k].services : k \in 1..Len(list)}

service_counter(list) ==
    [service \in AllServices(list) |->
        Cardinality({k \in 1..Len(list) : service \in list[k].services})]

\* The literal 0.3.
GapThreshold == FloatOf(3, 10)

\* IsGap with the services at the threshold counted as gaps.
IsGap_AtThreshold(count, total_competitors) ==
    ~FloatLess(GapThreshold, FloatOf(count, total_competitors))

\* count / total_competitors < 0.3, in floats.
IsGap(count, total_competitors) ==
    FloatLess(FloatOf(count, total_competitors), GapThreshold)

\* The gaps of the service gap analysis: each with its count and the total.
ServiceGaps(list) ==
    {<<service, service_counter(list)[service], Len(list)>> :
        service \in {s \in AllServices(list) : IsGap(service_counter(list)[s], Len(list))}}

\* The summary metrics of main, in the order they are computed: the average
\* rating divides by the number of rated competitors, and an exception ends
\* the execution with the values computed before it.
ShowResults ==
    /\ pc = "display"
    /\ caller = "main"
    /\ pc' = "idle"
    /\ IF "competitors" \notin DOMAIN session_state
       THEN UNCHANGED <<messages, summary, raised>>
       ELSE LET stored == session_state["competitors"]
                total == [total_competitors |-> Len(stored)]
                rated == Rated(stored)
                \* the mean, in tenths of a star, as numerator and denominator
                avg_rating == <<SumSeq(Ratings(rated)), Len(rated)>>
                total_reviews == SumSeq(ReviewCounts(stored))
            IN  /\ messages' = Append(messages,
                       <<"success", Len(stored), session_state["address"]>>)
                /\ IF Len(rated) = 0
                   THEN /\ summary' = total
                        /\ raised' = <<"ZeroDivisionError">>
                   ELSE /\ summary' = [total_competitors |-> Len(stored),
                                       avg_rating |-> avg_rating,
                                       total_reviews |-> total_reviews,
                                       closest |-> MinByDistance(stored),
                                       gaps |-> ServiceGaps(stored)]
                        /\ UNCHANGED raised
    /\ UNCHANGED <<session_state, caller, address, radius, origin, data, all_results, i,
                   details, competitors, log, result, runs, served>>

\* ---------------------------------------------------------------- analyze_competitors

\* analyze_competitors, the search having returned.
AnalyzeStartLoop ==
    /\ pc = "searched"
    /\ caller = "analyze_competitors"
    /\ competitors' = <<>>
    /\ i' = 1
    /\ pc' = "loop"
    /\ UNCHANGED <<session_state, caller, address, radius, origin, data, all_results,
                   details, log, messages, summary, raised, result, runs, served>>

\* AnalyzeCompetitor with the distance left as computed, not rounded.
AnalyzeCompetitor_Unrounded(place, record, your_location) ==
    [MainCompetitor(place, record, your_location) EXCEPT
        !.distance_miles = Distance(your_location, place.location)]

\* The Competitor analyze_competitors builds of a stub and its detail record.
AnalyzeCompetitor(place, record, your_location) ==
    LET distance == Distance(your_location, place.location)
        reviews == Get(record, "reviews", <<>>)
        pricing_info == PricingOf[reviews]
        all_text == Join(<<" ">>, ReviewTexts(reviews))
        services == ServicesOf[all_text \o <<" ">> \o Get(record, "name", <<>>)]
        keywords == KeywordsOf[reviews]
    IN  Competitor(Get(record, "name", Unknown),
                   Get(record, "formatted_address", "Unknown"),
                   Get(record, "formatted_phone_number", "Not available"),
                   Get(record, "rating", 0),
                   Get(record, "user_ratings_total", 0),
                   Get(record, "website", "Not available"),
                   Round2(distance),
                   pricing_info,
                   services,
                   keywords.positive_found,
                   keywords.negative_found,
                   keywords.themes)

\* One pass of the loop of analyze_competitors up to its delay.
AnalyzeFetchDetails ==
    /\ pc = "loop"
    /\ caller = "analyze_competitors"
    /\ i <= Len(all_results)
    /\ \E status \in DetailsStatuses, k \in 1..Len(DetailRecords) :
          LET place == all_results[i]
              got == get_place_details(status, DetailRecords[k])
          IN  /\ log' = Append(log, [op |-> "details", place_id |-> place.place_id,
                                     status |-> status, result |-> got])
              /\ details' = got
              /\ IF IsEmpty(got)
                 THEN /\ i' = i + 1
                      /\ pc' = "loop"
                      /\ UNCHANGED competitors
                 ELSE /\ competitors' = Append(competitors,
                                               AnalyzeCompetitor(place, got, origin))
                      /\ pc' = "detail_delay"
                      /\ UNCHANGED i
    /\ UNCHANGED <<session_state, caller, address, radius, origin, data, all_results,
                   messages, summary, raised, result, runs, served>>

\* The delay that ends a pass of the loop of analyze_competitors.
AnalyzeDetailDelay ==
    /\ pc = "detail_delay"
    /\ caller = "analyze_competitors"
    /\ log' = Append(log, SleepEvent(DetailDelay))
    /\ i' = i + 1
    /\ pc' = "loop"
    /\ UNCHANGED <<session_state, caller, address, radius, origin, data, all_results,
                   details, competitors, messages, summary, raised, result, runs, served>>

\* analyze_competitors, the loop over: the list is sorted and returned.
AnalyzeReturn ==
    /\ pc = "loop"
    /\ caller = "analyze_competitors"
    /\ i > Len(all_results)
    /\ competitors' = SortByDistance(competitors)
    /\ result' = <<"returned", SortByDistance(competitors)>>
    /\ pc' = "idle"
    /\ UNCHANGED <<session_state, caller, address, radius, origin, data, all_results, i,
                   details, log, messages, summary, raised, runs, served>>

\* ---------------------------------------------------------------- specification

Next ==
    \/ \E input \in FormInputs : ClickAnalyze(input[1], input[2])
    \/ Rerun
    \/ \E input \in CallInputs : CallAnalyzeCompetitors(input[1], input[2])
    \/ MainGeocode
    \/ AnalyzeGeocode
    \/ SearchFirstPage
    \/ SearchPageDelay
    \/ SearchNextPage
    \/ MainCheckPlaces
    \/ MainFetchDetails
    \/ MainDetailDelay
    \/ MainSort
    \/ MainStore
    \/ ShowResults
    \/ AnalyzeStartLoop
    \/ AnalyzeFetchDetails
    \/ AnalyzeDetailDelay
    \/ AnalyzeReturn

Spec == Init /\ [][Next]_vars

\* ---------------------------------------------------------------- main on stored results

\* The list main has stored after an analysis of total stubs, of which the
\* first count are the business of the first detail record and the others the
\* business of the third.
StoredCompetitors(total, count) ==
    [k \in 1..total |->
        MainCompetitor([place_id |-> k, location |-> 2000],
                       IF k <= count THEN DetailRecords[1] ELSE DetailRecords[3],
                       0)]

\* main with results stored by an earlier session of analysis.
StoredInit ==
    /\ \E total \in 1..MaxCompetitors : \E count \in 0..total :
          session_state = [key \in {"competitors", "address", "radius"} |->
                              CASE key = "competitors" -> StoredCompetitors(total, count)
                                [] key = "address" -> "12 Oak Ave"
                                [] key = "radius" -> 5]
    /\ pc = "idle"
    /\ caller = "main"
    /\ address = "12 Oak Ave"
    /\ radius = 5
    /\ origin = <<>>
    /\ data = EmptyDict
    /\ all_results = <<>>
    /\ i = 1
    /\ details = EmptyDict
    /\ competitors = <<>>
    /\ log = <<>>
    /\ messages = <<>>
    /\ summary = EmptyDict
    /\ raised = NoException
    /\ result = NoResult
    /\ runs = 0
    /\ served = 0

\* The executions of main that only show what is stored.
StoredNext == Rerun \/ ShowResults

StoredSpec == StoredInit /\ [][StoredNext]_vars

\* ---------------------------------------------------------------- observations of a run

Last(s) == s[Len(s)]

SearchEvents == SelectSeq(log, LAMBDA e : e.op = "search")

DetailsEvents == SelectSeq(log, LAMBDA e : e.op = "details")

RECURSIVE ConcatResults(_)
ConcatResults(pages) ==
    IF pages = <<>> THEN <<>> ELSE Head(pages).results \o ConcatResults(Tail(pages))

\* The pages up to the first whose status is not OK.
OkPrefix(pages) ==
    SubSeq(pages, 1,
           Min({j \in 1..(Len(pages) + 1) : j > Len(pages) \/ pages[j].status # "OK"}) - 1)

Searching == pc \in {"geocode", "search", "page_delay", "next_page"}

NoErrorShown == \A m \in 1..Len(messages) : messages[m][1] # "error"

\* ---------------------------------------------------------------- C1
\* C1: the search requests a follow-up page exactly while the last page is OK
\* and carries a token; what it returns is the concatenation, in page order,
\* of the results of the first page and of the consecutive OK pages after it,
\* so the results gathered before a non-OK follow-up page are kept; a non-OK
\* first page gives the empty list and no error.
C1_SearchAccumulatesPages ==
    LET pages == SearchEvents
    IN  /\ \A j \in 1..Len(pages) : pages[j].pagetoken = (j > 1)
        /\ \A j \in 1..(Len(pages) - 1) : pages[j].status = "OK" /\ pages[j].token
        /\ pc \in {"page_delay", "next_page"} =>
              pages # <<>> /\ Last(pages).status = "OK" /\ Last(pages).token
        /\ (~Searching /\ pages # <<>>) =>
              /\ Last(pages).status # "OK" \/ ~Last(pages).token
              /\ all_results = ConcatResults(OkPrefix(pages))
              /\ pages[1].status # "OK" =>
                    all_results = <<>> /\ raised = NoException /\ NoErrorShown

\* A search has returned the stubs of its first page after a follow-up page
\* that was not OK.
C1_Witness ==
    /\ pc = "searched"
    /\ Len(SearchEvents) >= 2
    /\ Last(SearchEvents).status # "OK"
    /\ Last(SearchEvents).results # <<>>
    /\ all_results # <<>>

\* ---------------------------------------------------------------- C2
\* C2: a detail fetch that fails stops nothing: the loop fetches every stub,
\* in order, and when it is over the list holds one Competitor for each stub
\* whose fetch had status OK and none for the others.
LoopOver == all_results # <<>> /\ i > Len(all_results)

OkFetches == Len(SelectSeq(DetailsEvents, LAMBDA e : e.status = "OK"))

C2_FailedFetchSkipsOneStub ==
    /\ \A j \in 1..Len(DetailsEvents) :
          j <= Len(all_results) /\ DetailsEvents[j].place_id = all_results[j].place_id
    /\ LoopOver =>
          /\ Len(DetailsEvents) = Len(all_results)
          /\ Len(competitors) = OkFetches

\* ---------------------------------------------------------------- C3
\* C3: a geocode status other than OK ends the run at once: no search page and
\* no detail record is requested after it, no list is built or stored, main
\* reports the error with the status and shows no results, and the exception
\* leaves analyze_competitors.
GeocodeFailed == log # <<>> /\ log[1].op = "geocode" /\ log[1].status # "OK"

C3_AfterFailure ==
    GeocodeFailed =>
        /\ Len(log) = 1
        /\ pc = "idle"
        /\ all_results = <<>>
        /\ competitors = <<>>
        /\ IsEmpty(summary)
        /\ caller = "main" =>
              /\ raised = NoException
              /\ messages =
                    << <<"error", "Error during analysis",
                         <<"Exception", "Geocoding failed", log[1].status>> >>,
                       <<"info", "Make sure your address is valid and try again.">> >>
        /\ caller = "analyze_competitors" =>
              /\ raised = <<"Exception", "Geocoding failed", log[1].status>>
              /\ result = NoResult

C3_FailureStep ==
    (/\ Len(log') = 1
     /\ log = <<>>
     /\ log'[1].op = "geocode"
     /\ log'[1].status # "OK") => (session_state' = session_state /\ pc' = "idle")

C3_GeocodeFailureIsFatal == [](C3_AfterFailure) /\ [][C3_FailureStep]_vars

\* main has ended on a geocode failure while the results of an earlier
\* execution are stored.
C3_Witness ==
    /\ GeocodeFailed
    /\ caller = "main"
    /\ "competitors" \in DOMAIN session_state

\* ---------------------------------------------------------------- C4
\* C4: the summary step never divides by zero: with no competitor rated above
\* 0 the average is reported as "no data".
SummaryShown ==
    /\ pc = "idle"
    /\ caller = "main"
    /\ messages # <<>>
    /\ Last(messages)[1] = "success"

C4_AverageNeverDividesByZero ==
    SummaryShown =>
        /\ raised = NoException
        /\ "avg_rating" \in DOMAIN summary
        /\ Rated(session_state["competitors"]) = <<>> => summary["avg_rating"] = "no data"

\* ---------------------------------------------------------------- C5
\* C5: a detail record whose status is OK is never skipped: whatever fields
\* it has, none included, a Competitor is built of it with "Unknown",
\* "Unknown", "Not available", 0.0, 0 and "Not available" for the missing ones.
FetchedOk == log # <<>> /\ Last(log).op = "details" /\ Last(log).status = "OK"

C5_SparseRecordIsBuilt ==
    FetchedOk =>
        /\ pc = "detail_delay"
        /\ competitors # <<>>
        /\ LET c == Last(competitors)
           IN  /\ c.name = Get(details, "name", Unknown)
               /\ c.address = Get(details, "formatted_address", "Unknown")
               /\ c.phone = Get(details, "formatted_phone_number", "Not available")
               /\ c.rating = Get(details, "rating", 0)
               /\ c.review_count = Get(details, "user_ratings_total", 0)
               /\ c.website = Get(details, "website", "Not available")

\* ---------------------------------------------------------------- C6
\* C6: a delay follows every detail request, failed or not: nothing but a
\* delay comes right after a detail request.
C6_DelayAfterEveryFetch ==
    \A j \in 1..(Len(log) - 1) : log[j].op = "details" => log[j + 1].op = "sleep"

\* ---------------------------------------------------------------- C7
\* C7: a follow-up page is requested only right after the delay that follows
\* the page whose token it uses.
C7_DelayBeforeFollowUpPage ==
    \A j \in 1..Len(log) :
        (log[j].op = "search" /\ log[j].pagetoken) =>
            /\ j >= 3
            /\ log[j - 1] = SleepEvent(PageDelay)
            /\ log[j - 2].op = "search"
            /\ log[j - 2].token

\* A search has requested a follow-up page.
C7_Witness ==
    /\ log # <<>>
    /\ Last(log).op = "search"
    /\ Last(log).pagetoken

\* ---------------------------------------------------------------- C8
\* C8 as stated: a search that returns no stub, after a geocoding that
\* succeeded, gives an empty Competitor sequence and a summary whose average
\* rating is "no data" and whose total of reviews is 0, without error.
EmptySearchDone == pc = "idle" /\ SearchEvents # <<>> /\ all_results = <<>>

C8_EmptySearchGivesEmptySummary ==
    EmptySearchDone =>
        /\ raised = NoException
        /\ NoErrorShown
        /\ competitors = <<>>
        /\ "avg_rating" \in DOMAIN summary
        /\ summary["avg_rating"] = "no data"
        /\ "total_reviews" \in DOMAIN summary
        /\ summary["total_reviews"] = 0

\* C8 as amended: a search that returns no stub ends the run without error
\* and without a summary: main shows its warning, computes no average rating
\* and no total of reviews and stores nothing; analyze_competitors returns the
\* empty sequence.
C8_AfterEmptySearch ==
    EmptySearchDone =>
        /\ raised = NoException
        /\ NoErrorShown
        /\ competitors = <<>>
        /\ IsEmpty(summary)
        /\ caller = "main" =>
              messages =
                  << <<"warning", "No competitors found. Try expanding your search radius.">> >>
        /\ caller = "analyze_competitors" => result = <<"returned", <<>>>>

C8_EmptySearchStep ==
    (pc = "searched" /\ caller = "main" /\ all_results = <<>>) =>
        (session_state' = session_state /\ pc' = "idle")

C8_EmptySearchEndsWithoutSummary == [](C8_AfterEmptySearch) /\ [][C8_EmptySearchStep]_vars

\* main has ended on a search without stubs while the results of an earlier
\* execution are stored.
C8_Witness ==
    /\ EmptySearchDone
    /\ caller = "main"
    /\ log[1].status = "OK"
    /\ "competitors" \in DOMAIN session_state

\* ---------------------------------------------------------------- C9
\* C9: the list a run produces is in ascending order of distance_miles, the
\* competitors of one distance are in it in the order the loop built them,
\* and the closest competitor of the summary is its first element.
Ascending(list) ==
    \A j \in 1..(Len(list) - 1) : list[j].distance_miles <= list[j + 1].distance_miles

AtDistance(list, d) == SelectSeq(list, LAMBDA c : c.distance_miles = d)

C9_Produced ==
    /\ pc \in {"complete", "display"} => Ascending(competitors)
    /\ "competitors" \in DOMAIN session_state => Ascending(session_state["competitors"])
    /\ result[1] = "returned" => Ascending(result[2]) /\ result[2] = competitors
    /\ "closest" \in DOMAIN summary => summary["closest"] = session_state["competitors"][1]

C9_SortStep ==
    (pc = "loop" /\ pc' \in {"complete", "idle"}) =>
        /\ Len(competitors') = Len(competitors)
        /\ \A j \in 1..Len(competitors) :
              AtDistance(competitors', competitors[j].distance_miles)
                  = AtDistance(competitors, competitors[j].distance_miles)

C9_SortedStableClosestFirst == [](C9_Produced) /\ [][C9_SortStep]_vars

\* The summary names the closest of two different competitors at the same
\* distance.
C9_Witness ==
    /\ "closest" \in DOMAIN summary
    /\ Len(session_state["competitors"]) >= 2
    /\ session_state["competitors"][1].distance_miles
           = session_state["competitors"][2].distance_miles
    /\ session_state["competitors"][1] # session_state["competitors"][2]

\* ---------------------------------------------------------------- C10
\* C10 as stated: of a single stub whose one review is the scenario's text, the
\* Competitor has the pricing list ["$8,500"] and nothing else in it,
\* "professional" among its positive keywords, and the themes speed and
\* estimate, each counted at least once.
ScenarioFetched ==
    /\ pc = "detail_delay"
    /\ Len(all_results) = 1
    /\ "reviews" \in DOMAIN details
    /\ details["reviews"] = <<[text |-> ScenarioText]>>

Price8500 == <<"$","8",",","5","0","0">>

QuoteWas8500 == <<"q","u","o","t","e"," ","w","a","s"," ","$","8",",","5","0","0">>

Professional == <<"p","r","o","f","e","s","s","i","o","n","a","l">>

C10_ScenarioProfile ==
    ScenarioFetched =>
        LET c == Last(competitors)
        IN  /\ c.pricing_info = <<Price8500>>
            /\ InSeq(Professional, c.positive_keywords)
            /\ "speed" \in DOMAIN c.review_themes
            /\ c.review_themes["speed"] >= 1
            /\ "estimate" \in DOMAIN c.review_themes
            /\ c.review_themes["estimate"] >= 1

\* C10 as amended: the pricing list is ["$8,500", "quote was $8,500"], the
\* match of the quote pattern being its second entry; "professional" is among
\* the positive keywords; the theme speed is counted at least once and the
\* theme estimate is absent, "quote" alone being no phrase of it.
C10_ScenarioProfileOfCode ==
    ScenarioFetched =>
        LET c == Last(competitors)
        IN  /\ c.pricing_info = <<Price8500, QuoteWas8500>>
            /\ InSeq(Professional, c.positive_keywords)
            /\ "speed" \in DOMAIN c.review_themes
            /\ c.review_themes["speed"] >= 1
            /\ "estimate" \notin DOMAIN c.review_themes

\* The Competitor of the scenario's single stub has been built.
C10_Witness == ScenarioFetched /\ Len(competitors) = 1

\* ---------------------------------------------------------------- C11
\* C11: of the services main counts in the stored list, each is offered by c
\* of the n competitors with 1 <= c <= n, and it is among the gaps shown
\* exactly when 10 * c < 3 * n: three of ten is no gap.
GapsShown == "gaps" \in DOMAIN summary

Flagged(service) == \E g \in summary["gaps"] : g[1] = service

C11_GapThresholdIsStrict ==
    GapsShown =>
        LET stored == session_state["competitors"]
            n == Len(stored)
        IN  \A service \in AllServices(stored) :
                LET c == Cardinality({k \in 1..n : service \in stored[k].services})
                IN  /\ 1 <= c /\ c <= n
                    /\ Flagged(service) <=> 10 * c < 3 * n
                    /\ Flagged(service) => <<service, c, n>> \in summary["gaps"]

\* The gaps of ten competitors are shown, three of which offer a service:
\* the ratio is the threshold itself, and the service is not among the gaps.
C11_Witness ==
    /\ GapsShown
    /\ Len(session_state["competitors"]) = 10
    /\ \E service \in AllServices(session_state["competitors"]) :
          /\ service_counter(session_state["competitors"])[service] = 3
          /\ ~Flagged(service)

\* ---------------------------------------------------------------- C12
\* C12: st.session_state changes only in the step of main that follows the
\* sort, every stub of the search having had its detail request, and then it
\* holds the sorted list, the address and the radius of that execution; an
\* execution that ends on an empty address, a geocode failure or an empty
\* search leaves it as it was; and a render shows the stored list.
StoredKeys == {"competitors", "address", "radius"}

C12_StoreStep ==
    session_state' # session_state =>
        /\ caller = "main"
        /\ pc = "complete"
        /\ all_results # <<>>
        /\ i > Len(all_results)
        /\ Len(DetailsEvents) = Len(all_results)
        /\ Ascending(competitors)
        /\ DOMAIN session_state' = StoredKeys
        /\ session_state'["competitors"] = competitors
        /\ session_state'["address"] = address
        /\ session_state'["radius"] = radius

RunRefused ==
    /\ pc = "idle"
    /\ caller = "main"
    /\ \E m \in 1..Len(messages) : messages[m][1] \in {"error", "warning"}

C12_RefusedStep == (~RunRefused /\ RunRefused') => session_state' = session_state

C12_RenderStep ==
    (pc = "display" /\ "competitors" \in DOMAIN session_state) =>
        /\ Last(messages') = <<"success", Len(session_state["competitors"]),
                               session_state["address"]>>
        /\ summary'["total_competitors"] = Len(session_state["competitors"])

C12_StoredOnlyOnSuccess ==
    [][C12_StoreStep /\ C12_RefusedStep /\ C12_RenderStep]_vars

\* An execution of main for another address has been refused, and the results
\* of the execution before it are stored still.
C12_Witness ==
    /\ RunRefused
    /\ "competitors" \in DOMAIN session_state
    /\ session_state["competitors"] # <<>>
    /\ address # session_state["address"]

\* ---------------------------------------------------------------- C13
\* C13: what a run calls and what it builds is one function of the answers
\* of the providers, the same for main and for analyze_competitors. With a
\* stub list that is not empty, at the sort, the calls and delays of the run
\* are those answers in order, with the page delay before every follow-up
\* page and the detail delay after every record that is not empty; the detail
\* requests are those of the stubs, in order; and the sorted list is the list
\* the other copy of the loop builds of the same answers. With an empty stub
\* list the calls agree as well, analyze_competitors returns the empty list,
\* and main returns nothing and shows its warning.
Responses(events) == SelectSeq(events, LAMBDA e : e.op # "sleep")

RECURSIVE WithDelays(_, _)
WithDelays(responses, k) ==
    IF k > Len(responses) THEN <<>>
    ELSE LET e == responses[k]
         IN  (IF e.op = "search" /\ e.pagetoken THEN <<SleepEvent(PageDelay)>> ELSE <<>>)
             \o <<e>>
             \o (IF e.op = "details" /\ ~IsEmpty(e.result)
                 THEN <<SleepEvent(DetailDelay)>> ELSE <<>>)
             \o WithDelays(responses, k + 1)

OtherCopy == IF caller = "main" THEN "analyze_competitors" ELSE "main"

BuiltBy(copy, place, record) ==
    IF copy = "main" THEN MainCompetitor(place, record, origin)
    ELSE AnalyzeCompetitor(place, record, origin)

\* The Competitors the given copy of the loop builds of the stubs from the
\* k-th on and of the records their detail requests were answered with.
RECURSIVE BuiltFrom(_, _, _, _)
BuiltFrom(copy, stubs, fetches, k) ==
    IF k > Len(stubs) THEN <<>>
    ELSE (IF IsEmpty(fetches[k].result) THEN <<>>
          ELSE <<BuiltBy(copy, stubs[k], fetches[k].result)>>)
         \o BuiltFrom(copy, stubs, fetches, k + 1)

PipelineDone ==
    \/ caller = "main" /\ pc = "complete"
    \/ caller = "analyze_competitors" /\ result[1] = "returned" /\ all_results # <<>>

=============================================================================
